---- MODULE Spec2Model ----
(***************************************************************************)
(* A model of the ethaddr address codec: hex decoding (src/src/hex.rs),    *)
(* EIP-55 checksummed formatting (src/src/checksum.rs), the checksum-      *)
(* verifying parsers (src/src/lib.rs, src/macros/src/lib.rs) and the       *)
(* stack formatting buffer (src/src/buffer.rs).                            *)
(*                                                                         *)
(* A Rust `str` is modelled as what it is: the sequence of its UTF-8       *)
(* bytes (naturals 0..255).  `s.len()` is Len, `s.as_bytes()` the sequence *)
(* itself; sequences are 1-based, the code's indices 0-based.              *)
(***************************************************************************)
EXTENDS Integers, Sequences, FiniteSets, TLC

VARIABLES
    text,       \* the str handed to the parsers (UTF-8 bytes)
    results,    \* prefix kind -> what hex::decode returned for prefix ++ text
    checked,    \* the last checksum-verifying parse: its call and outcome
    address,    \* checksum::fmt: the address being formatted
    buffer,     \* checksum::fmt: the 42-cell staging buffer (cells may be uninitialised)
    i,          \* checksum::fmt: index of the hex-writing loop
    pc,         \* checksum::fmt: position in the function
    digest,     \* checksum::fmt: what keccak256 returned
    hashed,     \* checksum::fmt: the bytes keccak256 was called on
    decoded,    \* what hex::decode returned for the formatted address
    fb,         \* a FormatBuffer: [offset, buffer]
    last,       \* the FormatBuffer before its last write_str call
    log,        \* the write_str calls so far: argument and outcome of each
    parser      \* address!: the input, the iterators over it, ParserState and Input

vars == <<text, results, checked, address, buffer, i, pc, digest, hashed, decoded, fb, last, log, parser>>

(***************************************************************************)
(* Bounds of the model.                                                    *)
(***************************************************************************)
\* addresses are [ (0xee + 18*seed + 17*stride*k) mod 256 : k in 0..19 ]
MaxSeed == 1
\* texts are cut or padded to 40-MaxLenDelta .. 40+MaxLenDelta characters
MaxLenDelta == 1
\* write_str is called at most MaxWrites times on one FormatBuffer
MaxWrites == 4
\* the address! macro is handed at most MaxTokens token trees
MaxTokens == 3

(***************************************************************************)
(* Characters and text.                                                    *)
(***************************************************************************)
\* The UTF-8 encoding of one Unicode scalar value below U+0800.
Utf8Char(cp) == IF cp < 128 THEN <<cp>> ELSE <<192 + (cp \div 64), 128 + (cp % 64)>>

RECURSIVE Utf8(_)
Utf8(cps) == IF cps = <<>> THEN <<>> ELSE Utf8Char(Head(cps)) \o Utf8(Tail(cps))

\* u8::to_ascii_uppercase / to_ascii_lowercase
to_ascii_uppercase(c) == IF c \in 97..122 THEN c - 32 ELSE c
to_ascii_lowercase(c) == IF c \in 65..90 THEN c + 32 ELSE c

IsHexDigit(c) == c \in 48..57 \/ c \in 65..70 \/ c \in 97..102

\* The lowercase hex digit of a nibble 0..15, and the value a hex digit spells.
HexDigit(n) == IF n < 10 THEN 48 + n ELSE 97 + (n - 10)
HexValue(c) == IF c \in 48..57 THEN c - 48 ELSE to_ascii_lowercase(c) - 97 + 10

\* The 40 lowercase hex characters that spell 20 bytes.
HexLower(b) == [k \in 1..40 |-> IF k % 2 = 1 THEN HexDigit(b[(k + 1) \div 2] \div 16)
                                             ELSE HexDigit(b[k \div 2] % 16)]

(***************************************************************************)
(* hex.rs                                                                  *)
(***************************************************************************)
Ok(bytes) == [tag |-> "Ok", bytes |-> bytes]
InvalidLength(len) == [tag |-> "InvalidLength", len |-> len]
InvalidHexCharacter(c, index) == [tag |-> "InvalidHexCharacter", c |-> c, index |-> index]
ChecksumMismatch == [tag |-> "ChecksumMismatch"]
NotRun == [tag |-> "NotRun"]

Prefix0x == <<48, 120>>

\* Variants of strip_0x_prefix: one that also strips `0X`, one that strips nothing.
strip_any_case_prefix(s) ==
    IF Len(s) >= 2 /\ s[1] = 48 /\ s[2] \in {88, 120} THEN SubSeq(s, 3, Len(s)) ELSE s

strip_nothing(s) == s

strip_0x_prefix(s) ==
    IF Len(s) >= 2 /\ SubSeq(s, 1, 2) = Prefix0x THEN SubSeq(s, 3, Len(s)) ELSE s

\* A variant of nibble without the `A`..=`F` arm.
nibble_lower_only(c) ==
    CASE c \in 48..57 -> c - 48
      [] c \in 97..102 -> c - 97 + 10
      [] OTHER -> -1

\* The closure `nibble` of decode; -1 is None.
nibble(c) ==
    CASE c \in 48..57 -> c - 48
      [] c \in 65..70 -> c - 65 + 10
      [] c \in 97..102 -> c - 97 + 10
      [] OTHER -> -1

\* A variant of decode_chunks that reports the chunk's index, not the character's.
RECURSIVE decode_chunks_byte_index(_, _, _)
decode_chunks_byte_index(s, k, bytes) ==
    IF k = 20 THEN Ok(bytes)
    ELSE LET hi == s[2 * k + 1]
             lo == s[2 * k + 2]
         IN  IF nibble(hi) = -1 THEN InvalidHexCharacter(hi, k)
             ELSE IF nibble(lo) = -1 THEN InvalidHexCharacter(lo, k)
             ELSE decode_chunks_byte_index(s, k + 1,
                                           Append(bytes, (nibble(hi) * 16 + nibble(lo)) % 256))

\* The loop of decode over s.as_bytes().chunks(2), from chunk k on; `bytes` holds
\* the k bytes written so far.  The `?` returns at the first invalid character.
RECURSIVE decode_chunks(_, _, _)
decode_chunks(s, k, bytes) ==
    IF k = 20 THEN Ok(bytes)
    ELSE LET hi == s[2 * k + 1]
             lo == s[2 * k + 2]
         IN  IF nibble(hi) = -1 THEN InvalidHexCharacter(hi, k * 2)
             ELSE IF nibble(lo) = -1 THEN InvalidHexCharacter(lo, k * 2 + 1)
             ELSE decode_chunks(s, k + 1, Append(bytes, (nibble(hi) * 16 + nibble(lo)) % 256))

\* A variant of decode that validates the characters of the first 20 whole
\* chunks before it checks the length.
decode_characters_first(str) ==
    LET s == strip_0x_prefix(str)
        n == IF Len(s) < 40 THEN Len(s) \div 2 ELSE 20
        bad == {k \in 1..(2 * n) : nibble(s[k]) = -1}
        first == CHOOSE k \in bad : \A m \in bad : k <= m
    IN  IF bad # {} THEN InvalidHexCharacter(s[first], first - 1)
        ELSE IF Len(s) # 40 THEN InvalidLength(Len(s))
        ELSE decode_chunks(s, 0, <<>>)

decode(str) ==
    LET s == strip_0x_prefix(str)
    IN  IF Len(s) # 40 THEN InvalidLength(Len(s)) ELSE decode_chunks(s, 0, <<>>)

(***************************************************************************)
(* The inputs of the model.                                                *)
(***************************************************************************)
Addr(seed, stride) == [k \in 1..20 |-> (238 + 18 * seed + 17 * stride * (k - 1)) % 256]
Addresses == {Addr(seed, stride) : seed \in 0..MaxSeed, stride \in {0, 1}}

\* Case mixtures of a text: all lower, all upper, or runs of pat[1] characters
\* alternating in case, the first run upper when pat[2] = 0.
CasePatterns == {<<0, 0>>, <<40, 0>>, <<1, 0>>, <<3, 1>>}
CaseMix(s, pat) ==
    [k \in 1..Len(s) |->
        IF pat[1] > 0 /\ ((k - 1) \div pat[1]) % 2 = pat[2]
        THEN to_ascii_uppercase(s[k]) ELSE s[k]]

\* Characters put in place of hex digits: the neighbours of the three digit
\* ranges ('/' ':' '@' 'G' '`' 'g'), 'x', and the two-byte U+00E9.
BadChars == {47, 58, 64, 71, 96, 103, 120, 233}
BadPositions == {1, 2, 21, 40}
MoreBadChars == {122, 233}
MoreBadPositions == {2, 22, 39}
NoSubst == <<0, 0>>
Subst(s, sub) == IF sub[1] \in 1..Len(s) THEN [s EXCEPT ![sub[1]] = sub[2]] ELSE s

\* s cut to n characters, or padded with '0' to n characters.
Resize(s, n) == [k \in 1..n |-> IF k <= Len(s) THEN s[k] ELSE 48]

\* The texts: a case mixture of an address's hex digits, up to two characters
\* replaced, cut or padded; as a str (UTF-8).
Texts ==
    {Utf8(Resize(Subst(Subst(CaseMix(HexLower(b), pat), s1), s2), n)) :
        b \in Addresses, pat \in CasePatterns,
        s1 \in {NoSubst} \cup (BadPositions \X BadChars),
        s2 \in {NoSubst} \cup (MoreBadPositions \X MoreBadChars),
        n \in (40 - MaxLenDelta)..(40 + MaxLenDelta)}

PrefixKinds == {"none", "0x", "0X"}
PrefixOf(p) ==
    CASE p = "none" -> <<>>
      [] p = "0x" -> <<48, 120>>
      [] p = "0X" -> <<48, 88>>
      [] p = "0x0x" -> <<48, 120, 48, 120>>

\* The str a parser is called on: the text behind one of the prefixes.
Parsed(p) == PrefixOf(p) \o text

(***************************************************************************)
(* Parsing: <Address as FromStr>::from_str is hex::decode.                 *)
(***************************************************************************)
from_str(s) == decode(s)

InitDecode ==
    /\ text \in Texts
    /\ results = [p \in PrefixKinds |-> NotRun]
    /\ checked = NotRun
    /\ address = <<>> /\ buffer = <<>> /\ i = 0 /\ pc = "idle"
    /\ digest = <<>> /\ hashed = <<>> /\ decoded = NotRun
    /\ fb = <<>> /\ last = NotRun /\ log = <<>> /\ parser = <<>>

\* (prefix ++ text).parse::<Address>()
Decode(p) ==
    /\ results[p] = NotRun
    /\ results' = [results EXCEPT ![p] = from_str(PrefixOf(p) \o text)]
    /\ UNCHANGED <<text, checked, address, buffer, i, pc, digest, hashed, decoded, fb, last, log, parser>>

NextDecode == \E p \in PrefixKinds : Decode(p)

SpecDecode == InitDecode /\ [][NextDecode]_vars

(***************************************************************************)
(* checksum.rs                                                             *)
(***************************************************************************)
LEN == 42

\* MaybeUninit::<u8>::uninit(): a cell that holds no value yet.
Uninit == -1

\* What a read of a cell that was never written may yield.
UninitReads == {0, 48, 102, 255}

\* What keccak256 may return: 32 bytes whose nibbles lie on both sides of 8.
DigestBytes == {0, 120, 135, 255}
Digests == {[k \in 1..32 |-> IF k % 2 = 1 THEN d1 ELSE d2] : d1, d2 \in DigestBytes}

\* let mut buffer = [MaybeUninit::<u8>::uninit(); LEN];
uninit_buffer == [k \in 0..(LEN - 1) |-> Uninit]

\* buffer[0].write(b'0'); buffer[1].write(b'x');
write_prefix(buf) == [buf EXCEPT ![0] = 48, ![1] = 120]

\* The body of the loop over the address bytes, for byte number n:
\*   let j = i * 2;
\*   buffer[j].write(b'0' + (byte >> 1));
\*   buffer[j + 1].write(b'0' + (byte & 0xf));
write_hex(buf, byte, n) ==
    LET j == n * 2
    IN  [buf EXCEPT ![j] = (48 + (byte \div 2)) % 256, ![j + 1] = (48 + (byte % 16)) % 256]

\* mem::transmute::<_, [u8; LEN]>(buffer): a cell never written reads as reads[k].
assume_init(buf, reads) == [k \in DOMAIN buf |-> IF buf[k] = Uninit THEN reads[k] ELSE buf[k]]

\* let addr = &mut buffer[2..];
addr_of(buf) == [k \in 1..(LEN - 2) |-> buf[k + 1]]

\* let byte = digest[i / 2];
\* let nibble = 0xf & if i % 2 == 0 { byte >> 4 } else { byte };
digest_nibble(dg, n) ==
    LET byte == dg[(n \div 2) + 1]
    IN  (IF n % 2 = 0 THEN byte \div 16 ELSE byte) % 16

\* for i in 0..addr.len() { ... if nibble >= 8 { addr[i] = addr[i].to_ascii_uppercase(); } }
recase(buf, dg) ==
    [k \in DOMAIN buf |->
        IF k >= 2 /\ digest_nibble(dg, k - 2) >= 8 THEN to_ascii_uppercase(buf[k]) ELSE buf[k]]

\* ChecksummedAddress::as_str: the 42 bytes as a str.  from_utf8_unchecked does
\* not look at them: whatever bytes the buffer holds are the str.
as_str(buf) == [k \in 1..LEN |-> buf[k - 1]]

RECURSIVE hex_loop(_, _, _)
hex_loop(buf, addr, n) ==
    IF n = 20 THEN buf ELSE hex_loop(write_hex(buf, addr[n + 1], n), addr, n + 1)

\* checksum::fmt as one function of the address, of what the unwritten cells
\* read as and of what keccak256 returns for the hashed bytes.
fmt(addr, reads, dg) ==
    recase(assume_init(hex_loop(write_prefix(uninit_buffer), addr, 0), reads), dg)

InitFmt ==
    /\ address \in Addresses
    /\ buffer = uninit_buffer
    /\ i = 0
    /\ pc = "prefix"
    /\ digest = <<>> /\ hashed = <<>> /\ decoded = NotRun
    /\ text = <<>> /\ results = <<>> /\ checked = NotRun
    /\ fb = <<>> /\ last = NotRun /\ log = <<>> /\ parser = <<>>

WritePrefix ==
    /\ pc = "prefix"
    /\ buffer' = write_prefix(buffer)
    /\ pc' = "hex"
    /\ UNCHANGED <<text, results, checked, address, i, digest, hashed, decoded, fb, last, log, parser>>

WriteHex ==
    /\ pc = "hex" /\ i < 20
    /\ buffer' = write_hex(buffer, address[i + 1], i)
    /\ i' = i + 1
    /\ UNCHANGED <<text, results, checked, address, pc, digest, hashed, decoded, fb, last, log, parser>>

Transmute ==
    /\ pc = "hex" /\ i = 20
    /\ \E reads \in [{k \in DOMAIN buffer : buffer[k] = Uninit} -> UninitReads] :
            buffer' = assume_init(buffer, reads)
    /\ pc' = "hash"
    /\ UNCHANGED <<text, results, checked, address, i, digest, hashed, decoded, fb, last, log, parser>>

Hash ==
    /\ pc = "hash"
    /\ hashed' = addr_of(buffer)
    /\ digest' \in Digests
    /\ pc' = "case"
    /\ UNCHANGED <<text, results, checked, address, buffer, i, decoded, fb, last, log, parser>>

Recase ==
    /\ pc = "case"
    /\ buffer' = recase(buffer, digest)
    /\ pc' = "done"
    /\ UNCHANGED <<text, results, checked, address, i, digest, hashed, decoded, fb, last, log, parser>>

\* address.to_string().parse::<Address>()
DecodeFormatted ==
    /\ pc = "done"
    /\ decoded' = decode(as_str(buffer))
    /\ pc' = "decoded"
    /\ UNCHANGED <<text, results, checked, address, buffer, i, digest, hashed, fb, last, log, parser>>

NextFmt == WritePrefix \/ WriteHex \/ Transmute \/ Hash \/ Recase \/ DecodeFormatted

SpecFmt == InitFmt /\ [][NextFmt]_vars

(***************************************************************************)
(* Checksum-verifying parsers: Address::from_str_checksum (lib.rs) and     *)
(* AddressLiteral::generate (macros/src/lib.rs), whose `mod hex` and       *)
(* `mod checksum` are the modules above.                                   *)
(***************************************************************************)
\* checksum::verify(bytes, s): the checksummed string of the bytes is computed
\* again and compared, byte for byte, with s, a leading `0x` stripped from
\* both.  Err carries the expected string.
verify(bytes, s, reads, dg) ==
    LET expected == as_str(fmt(bytes, reads, dg))
    IN  IF strip_0x_prefix(s) = strip_0x_prefix(expected)
        THEN [tag |-> "Ok"]
        ELSE [tag |-> "Err", expected |-> expected]

\* What the unwritten cells of a buffer of checksum::fmt may read as, and what
\* keccak256 may return, in a parse of s: fmt runs only once s has decoded.
Reads(s) == IF decode(s).tag = "Ok" THEN [{LEN - 2, LEN - 1} -> UninitReads] ELSE {<<>>}
DigestsOf(s) == IF decode(s).tag = "Ok" THEN Digests ELSE {<<>>}

\* A variant of from_str_checksum that reports every failure as a mismatch.
from_str_checksum_any_mismatch(s, reads, dg) ==
    LET d == decode(s)
    IN  IF d.tag # "Ok"
        THEN [result |-> ChecksumMismatch, verified |-> "not run"]
        ELSE IF verify(d.bytes, s, reads, dg).tag # "Ok"
        THEN [result |-> ChecksumMismatch, verified |-> "failed"]
        ELSE [result |-> Ok(d.bytes), verified |-> "passed"]

\* let bytes = hex::decode(s)?;
\* checksum::verify(&bytes, s).map_err(|_| ParseAddressError::ChecksumMismatch)?;
\* Ok(Self(bytes))
from_str_checksum(s, reads, dg) ==
    LET d == decode(s)
    IN  IF d.tag # "Ok"
        THEN [result |-> d, verified |-> "not run"]
        ELSE IF verify(d.bytes, s, reads, dg).tag # "Ok"
        THEN [result |-> ChecksumMismatch, verified |-> "failed"]
        ELSE [result |-> Ok(d.bytes), verified |-> "passed"]

\* <ParseAddressError as Display>::fmt
display(err) ==
    CASE err.tag = "InvalidLength" -> [msg |-> "invalid hex string length"]
      [] err.tag = "InvalidHexCharacter" ->
            [msg |-> "invalid character at position", c |-> err.c, index |-> err.index]
      [] err.tag = "ChecksumMismatch" -> [msg |-> "address checksum does not match"]

CompileError(message, detail) == [tag |-> "CompileError", message |-> message, detail |-> detail]

\* AddressLiteral::generate, from the parsed Input {checksum, value} on.
generate(input, reads, dg) ==
    LET d == decode(input.value)
    IN  IF d.tag # "Ok"
        THEN [result |-> CompileError("invalid address literal", display(d)),
              verified |-> "not run"]
        ELSE IF ~input.checksum
        THEN [result |-> Ok(d.bytes), verified |-> "not run"]
        ELSE LET v == verify(d.bytes, input.value, reads, dg)
             IN  IF v.tag # "Ok"
                 THEN [result |-> CompileError("invalid address checksum; did you mean",
                                               IF SubSeq(input.value, 1, 2) = Prefix0x
                                               THEN v.expected
                                               ELSE SubSeq(v.expected, 3, Len(v.expected))),
                       verified |-> "failed"]
                 ELSE [result |-> Ok(d.bytes), verified |-> "passed"]

InitChecksum ==
    /\ text \in Texts
    /\ checked = NotRun
    /\ results = <<>>
    /\ address = <<>> /\ buffer = <<>> /\ i = 0 /\ pc = "idle"
    /\ digest = <<>> /\ hashed = <<>> /\ decoded = NotRun
    /\ fb = <<>> /\ last = NotRun /\ log = <<>> /\ parser = <<>>

\* Address::from_str_checksum(prefix ++ text)
FromStrChecksum(p) ==
    /\ checked = NotRun
    /\ \E reads \in Reads(Parsed(p)), dg \in DigestsOf(Parsed(p)) :
            checked' = [tag |-> "from_str_checksum", s |-> Parsed(p), checksum |-> TRUE,
                        out |-> from_str_checksum(Parsed(p), reads, dg)]
    /\ UNCHANGED <<text, results, address, buffer, i, pc, digest, hashed, decoded, fb, last, log, parser>>

\* address!(prefix ++ text) and address!(~ prefix ++ text)
Generate(p, checksum) ==
    /\ checked = NotRun
    /\ \E reads \in Reads(Parsed(p)), dg \in DigestsOf(Parsed(p)) :
            checked' = [tag |-> "generate", s |-> Parsed(p), checksum |-> checksum,
                        out |-> generate([checksum |-> checksum, value |-> Parsed(p)], reads, dg)]
    /\ UNCHANGED <<text, results, address, buffer, i, pc, digest, hashed, decoded, fb, last, log, parser>>

NextChecksum ==
    \/ \E p \in PrefixKinds : FromStrChecksum(p)
    \/ \E p \in PrefixKinds, checksum \in BOOLEAN : Generate(p, checksum)

SpecChecksum == InitChecksum /\ [][NextChecksum]_vars

(***************************************************************************)
(* serde.rs                                                                *)
(***************************************************************************)
\* de::Error::custom(msg)
custom(msg) == [tag |-> "Error", msg |-> msg]

\* AddressVisitor::visit_str:
\*   s.strip_prefix("0x").ok_or_else(|| custom("missing `0x`-prefix"))?
\*       .parse().map_err(de::Error::custom)
visit_str(s) ==
    IF Len(s) >= 2 /\ SubSeq(s, 1, 2) = Prefix0x
    THEN LET r == from_str(SubSeq(s, 3, Len(s)))
         IN  IF r.tag = "Ok" THEN r ELSE custom(display(r))
    ELSE custom([msg |-> "missing 0x-prefix"])

SerdePrefixKinds == PrefixKinds \cup {"0x0x"}

InitSerde ==
    /\ text \in Texts
    /\ checked = NotRun
    /\ results = <<>>
    /\ address = <<>> /\ buffer = <<>> /\ i = 0 /\ pc = "idle"
    /\ digest = <<>> /\ hashed = <<>> /\ decoded = NotRun
    /\ fb = <<>> /\ last = NotRun /\ log = <<>> /\ parser = <<>>

\* Address::deserialize on the string prefix ++ text
Deserialize(p) ==
    /\ checked = NotRun
    /\ checked' = [tag |-> "deserialize", s |-> Parsed(p), out |-> visit_str(Parsed(p))]
    /\ UNCHANGED <<text, results, address, buffer, i, pc, digest, hashed, decoded, fb, last, log, parser>>

NextSerde == \E p \in SerdePrefixKinds : Deserialize(p)

SpecSerde == InitSerde /\ [][NextSerde]_vars

(***************************************************************************)
(* buffer.rs                                                               *)
(***************************************************************************)
N == 42

\* FormatBuffer::new()
new == [offset |-> 0, buffer |-> [k \in 0..(N - 1) |-> Uninit]]

\* FormatBuffer::as_str: the bytes below offset.
FormatBuffer_as_str(self) == [k \in 1..self.offset |-> self.buffer[k - 1]]

\* ptr::copy_nonoverlapping(s.as_ptr(), buffer.add(offset), count)
copy_nonoverlapping(s, buf, offset, count) ==
    [k \in DOMAIN buf |-> IF k >= offset /\ k < offset + count THEN s[k - offset + 1] ELSE buf[k]]

\* A variant of write_str that copies what fits before it reports the lack of space.
write_str_partial(self, s) ==
    LET end == self.offset + Len(s)
    IN  IF end > N
        THEN [ok |-> FALSE,
              self |-> [offset |-> N,
                        buffer |-> copy_nonoverlapping(s, self.buffer, self.offset,
                                                       N - self.offset)]]
        ELSE [ok |-> TRUE,
              self |-> [offset |-> end,
                        buffer |-> copy_nonoverlapping(s, self.buffer, self.offset, Len(s))]]

\* A variant of write_str that copies to the start of the buffer, not to offset.
write_str_at_start(self, s) ==
    LET end == self.offset + Len(s)
    IN  IF end > N
        THEN [ok |-> FALSE, self |-> self]
        ELSE [ok |-> TRUE,
              self |-> [offset |-> end,
                        buffer |-> copy_nonoverlapping(s, self.buffer, 0, Len(s))]]

\* <FormatBuffer as fmt::Write>::write_str.  offset <= N and a str is at most
\* isize::MAX bytes long, so checked_add returns Some(offset + s.len()).
write_str(self, s) ==
    LET end == self.offset + Len(s)
    IN  IF end > N
        THEN [ok |-> FALSE, self |-> self]
        ELSE [ok |-> TRUE,
              self |-> [offset |-> end,
                        buffer |-> copy_nonoverlapping(s, self.buffer, self.offset, Len(s))]]

\* The strs written: n bytes, the k-th of them the letter number (n + k) mod 26.
WriteLens == {0, 1, 2, 20, 40, 42, 43}
WriteStrs == {[k \in 1..n |-> 97 + ((n + k) % 26)] : n \in WriteLens}

InitBuffer ==
    /\ fb = new
    /\ last = new
    /\ log = <<>>
    /\ parser = <<>>
    /\ text = <<>> /\ results = <<>> /\ checked = NotRun
    /\ address = <<>> /\ buffer = <<>> /\ i = 0 /\ pc = "idle"
    /\ digest = <<>> /\ hashed = <<>> /\ decoded = NotRun

WriteStr(s) ==
    /\ Len(log) < MaxWrites
    /\ fb' = write_str(fb, s).self
    /\ last' = fb
    /\ log' = Append(log, [s |-> s, ok |-> write_str(fb, s).ok])
    /\ UNCHANGED <<text, results, checked, address, buffer, i, pc, digest, hashed, decoded, parser>>

NextBuffer == \E s \in WriteStrs : WriteStr(s)

SpecBuffer == InitBuffer /\ [][NextBuffer]_vars

(***************************************************************************)
(* macros/src/lib.rs: the input parser of address!                         *)
(***************************************************************************)
\* proc_macro::TokenTree: a Punct (ch), an Ident (symbol), a Literal (kind,
\* symbol, suffix) or a Group (delimiter, stream).
TokenTree(tt, ch, kind, symbol, suffix, delimiter, stream) ==
    [tt |-> tt, ch |-> ch, kind |-> kind, symbol |-> symbol, suffix |-> suffix,
     delimiter |-> delimiter, stream |-> stream]

Punct(ch) == TokenTree("Punct", ch, "", <<>>, <<>>, "", <<>>)
Ident(symbol) == TokenTree("Ident", 0, "", symbol, <<>>, "", <<>>)
Literal(kind, symbol, suffix) == TokenTree("Literal", 0, kind, symbol, suffix, "", <<>>)
Group(delimiter, stream) == TokenTree("Group", 0, "", <<>>, <<>>, delimiter, stream)

\* Literal::to_string: the literal as it is spelled in the source.
Literal_to_string(l) ==
    CASE l.kind = "Str" -> <<34>> \o l.symbol \o <<34>> \o l.suffix
      [] l.kind = "StrRaw" -> <<114, 34>> \o l.symbol \o <<34>> \o l.suffix
      [] l.kind = "ByteStr" -> <<98, 34>> \o l.symbol \o <<34>> \o l.suffix
      [] OTHER -> l.symbol \o l.suffix

\* TokenTree::to_string of a token that is not a group.
TokenTree_to_string(t) ==
    CASE t.tt = "Punct" -> <<t.ch>>
      [] t.tt = "Ident" -> t.symbol
      [] t.tt = "Literal" -> Literal_to_string(t)

None == [some |-> FALSE, value |-> <<>>]
Some(value) == [some |-> TRUE, value |-> value]

\* parse_string: the literal's text without a leading and a trailing `"`.
parse_string(literal) ==
    LET s == Literal_to_string(literal)
    IN  IF s = <<>> \/ Head(s) # 34 THEN None
        ELSE LET r == Tail(s)
             IN  IF r = <<>> \/ r[Len(r)] # 34 THEN None
                 ELSE Some(SubSeq(r, 1, Len(r) - 1))

\* ParserState::start
start == "TildeOrString"

\* ParserState::unexpected; token is Some(token tree) or None (the end).
unexpected(self, token) ==
    LET expected == CASE self = "TildeOrString" -> "~ or string literal"
                      [] self = "String" -> "string literal"
                      [] self = "Eof" -> "<eof>"
        value == IF ~token.some THEN "<eof>"
                 ELSE IF token.value.tt = "Group"
                 THEN CASE token.value.delimiter = "Parenthesis" -> "("
                        [] token.value.delimiter = "Brace" -> "{"
                        [] token.value.delimiter = "Bracket" -> "["
                        [] token.value.delimiter = "None" -> "O"
                 ELSE TokenTree_to_string(token.value)
    IN  CompileError("expected but found", [expected |-> expected, found |-> value])

\* Outcomes of ParserState::next: the next state and Input, an error, or the
\* stream of a None-delimited group that input() is called on.
NextOk(state, result) == [tag |-> "Ok", state |-> state, result |-> result]
NextErr(err, result) == [tag |-> "Err", err |-> err, result |-> result]
NextInput(stream, result) == [tag |-> "Input", stream |-> stream, result |-> result]

\* A variant of next that takes a `~` in the String state too.
next_tilde_again(self, token, result) ==
    IF token.tt = "Group" /\ token.delimiter = "None"
    THEN NextInput(token.stream, result)
    ELSE IF self \in {"TildeOrString", "String"} /\ token.tt = "Punct" /\ token.ch = 126
    THEN NextOk("String", [result EXCEPT !.checksum = FALSE])
    ELSE IF self \in {"TildeOrString", "String"} /\ token.tt = "Literal"
    THEN LET value == parse_string(token)
         IN  IF value.some
             THEN NextOk("Eof", [result EXCEPT !.value = value.value])
             ELSE NextErr(unexpected(self, Some(token)), result)
    ELSE NextErr(unexpected(self, Some(token)), result)

\* ParserState::next
next(self, token, result) ==
    IF token.tt = "Group" /\ token.delimiter = "None"
    THEN NextInput(token.stream, result)
    ELSE IF self = "TildeOrString" /\ token.tt = "Punct" /\ token.ch = 126
    THEN NextOk("String", [result EXCEPT !.checksum = FALSE])
    ELSE IF self \in {"TildeOrString", "String"} /\ token.tt = "Literal"
    THEN LET value == parse_string(token)
         IN  IF value.some
             THEN NextOk("Eof", [result EXCEPT !.value = value.value])
             ELSE NextErr(unexpected(self, Some(token)), result)
    ELSE NextErr(unexpected(self, Some(token)), result)

\* ParserState::end
end(self) == IF self = "Eof" THEN [tag |-> "Ok"] ELSE [tag |-> "Err", err |-> unexpected(self, None)]

\* The token trees handed to the macro.
Tilde == Punct(126)
Comma == Punct(44)
IdentX == Ident(<<120>>)
StrA == Literal("Str", <<97>>, <<>>)                \* "a"
StrEmpty == Literal("Str", <<>>, <<>>)              \* ""
SuffixedStrA == Literal("Str", <<97>>, <<115>>)     \* "a"s
RawStrA == Literal("StrRaw", <<97>>, <<>>)          \* r"a"
ByteStrA == Literal("ByteStr", <<97>>, <<>>)        \* b"a"
Int1 == Literal("Integer", <<49>>, <<>>)            \* 1

Leaves == {Tilde, Comma, IdentX, StrA, StrEmpty, SuffixedStrA, RawStrA, ByteStrA, Int1}

Groups ==
    {Group("None", <<>>),
     Group("None", <<Tilde>>),
     Group("None", <<StrA>>),
     Group("None", <<Tilde, StrA>>),
     Group("None", <<StrA, Comma>>),
     Group("None", <<Group("None", <<>>)>>),
     Group("None", <<Group("None", <<Tilde>>), StrA>>),
     Group("Parenthesis", <<StrA>>)}

TokenStreams == UNION {[1..n -> Leaves \cup Groups] : n \in 0..MaxTokens}

\* Input::parse up to the call of input(): the Input it starts from, the
\* start state and the iterator over the macro's token stream.  stack holds
\* the iterators of the nested input() calls, the innermost last; taken lists
\* the token trees next() has matched.
InitMacro ==
    /\ \E input \in TokenStreams :
           parser = [input |-> input,
                     stack |-> <<input>>,
                     state |-> start,
                     result |-> [checksum |-> TRUE, value |-> <<>>],
                     outcome |-> "running",
                     err |-> <<>>,
                     taken |-> <<>>]
    /\ text = <<>> /\ results = <<>> /\ checked = NotRun
    /\ address = <<>> /\ buffer = <<>> /\ i = 0 /\ pc = "idle"
    /\ digest = <<>> /\ hashed = <<>> /\ decoded = NotRun
    /\ fb = <<>> /\ last = NotRun /\ log = <<>>

Top == parser.stack[Len(parser.stack)]
Below == SubSeq(parser.stack, 1, Len(parser.stack) - 1)

\* One turn of try_fold in input(): next() on the iterator's next token tree.
\* An error ends every enclosing try_fold; a None-delimited group starts a
\* nested input() on its stream.
NextToken ==
    /\ parser.outcome = "running"
    /\ Top # <<>>
    /\ LET token == Head(Top)
           r == next(parser.state, token, parser.result)
       IN  parser' =
               CASE r.tag = "Input" ->
                        [parser EXCEPT !.stack = Below \o <<Tail(Top), r.stream>>]
                 [] r.tag = "Ok" ->
                        [parser EXCEPT !.stack = Below \o <<Tail(Top)>>,
                                       !.state = r.state,
                                       !.result = r.result,
                                       !.taken = Append(@, token)]
                 [] r.tag = "Err" ->
                        [parser EXCEPT !.stack = Below \o <<Tail(Top)>>,
                                       !.outcome = "Err",
                                       !.err = r.err,
                                       !.taken = Append(@, token)]
    /\ UNCHANGED <<text, results, checked, address, buffer, i, pc, digest, hashed, decoded, fb, last, log>>

\* The iterator of a nested input() is exhausted: try_fold returns the state
\* to the next() that called it.
GroupEnd ==
    /\ parser.outcome = "running"
    /\ Top = <<>>
    /\ Len(parser.stack) > 1
    /\ parser' = [parser EXCEPT !.stack = Below]
    /\ UNCHANGED <<text, results, checked, address, buffer, i, pc, digest, hashed, decoded, fb, last, log>>

\* The macro's token stream is exhausted: Input::parse calls end().
End ==
    /\ parser.outcome = "running"
    /\ Top = <<>>
    /\ Len(parser.stack) = 1
    /\ LET r == end(parser.state)
       IN  parser' = IF r.tag = "Ok"
                     THEN [parser EXCEPT !.outcome = "Ok"]
                     ELSE [parser EXCEPT !.outcome = "Err", !.err = r.err]
    /\ UNCHANGED <<text, results, checked, address, buffer, i, pc, digest, hashed, decoded, fb, last, log>>

NextMacro == NextToken \/ GroupEnd \/ End

SpecMacro == InitMacro /\ [][NextMacro]_vars

(***************************************************************************)
(* Properties of decode.                                                   *)
(***************************************************************************)
\* The text after one leading `0x`, if any, is taken off.
WithoutPrefix(s) ==
    IF Len(s) >= 2 /\ s[1] = 48 /\ s[2] = 120 THEN [k \in 1..(Len(s) - 2) |-> s[k + 2]] ELSE s

\* s.chars(): the Unicode scalar values of a str of one- and two-byte characters.
RECURSIVE Chars(_)
Chars(s) ==
    IF s = <<>> THEN <<>>
    ELSE IF s[1] < 128 THEN <<s[1]>> \o Chars(Tail(s))
    ELSE <<(s[1] - 192) * 64 + (s[2] - 128)>> \o Chars(Tail(Tail(s)))

HexText(t) == Len(t) = 40 /\ \A k \in 1..40 : IsHexDigit(t[k])
NonHex(t) == {k \in 1..Len(t) : ~IsHexDigit(t[k])}
FirstOf(S) == CHOOSE k \in S : \A m \in S : k <= m

\* The bytes that 40 hex digits spell, in any case.
Spelled(t) == [k \in 1..20 |-> 16 * HexValue(t[2 * k - 1]) + HexValue(t[2 * k])]

\* C2 as stated, lengths counted in characters: a text that is not 40
\* characters long after the prefix is stripped fails with InvalidLength{len},
\* len its length in characters.
C2_LengthInCharacters ==
    \A p \in PrefixKinds :
        LET st == Chars(WithoutPrefix(Parsed(p)))
        IN  (results[p] # NotRun /\ Len(st) # 40) => results[p] = InvalidLength(Len(st))

\* C2 (amended): lengths counted in UTF-8 bytes: a text that is not 40 bytes long after
\* one leading `0x` is stripped fails with InvalidLength{len}, len its length
\* in bytes, whatever characters it holds.
C2_LengthFirst ==
    \A p \in PrefixKinds :
        LET st == WithoutPrefix(Parsed(p))
        IN  (results[p] # NotRun /\ Len(st) # 40) => results[p] = InvalidLength(Len(st))

\* A 39-byte text with a non-hex character was parsed, and failed on its length.
C2_Witness ==
    LET st == WithoutPrefix(Parsed("0x"))
    IN  /\ Len(st) = 39 /\ NonHex(st) # {}
        /\ results["0x"] = InvalidLength(39)

\* C3 as stated, positions counted in characters: a stripped text of 40
\* characters with a non-hex character fails with InvalidHexCharacter{c, index},
\* index the position of the first non-hex character, c that character.
C3_FirstInvalidCharacter ==
    \A p \in PrefixKinds :
        LET st == Chars(WithoutPrefix(Parsed(p)))
        IN  (results[p] # NotRun /\ Len(st) = 40 /\ NonHex(st) # {}) =>
                results[p] = InvalidHexCharacter(st[FirstOf(NonHex(st))], FirstOf(NonHex(st)) - 1)

\* C3 (amended): positions counted in UTF-8 bytes: a stripped text of 40 bytes with a
\* non-hex byte fails with InvalidHexCharacter{c, index}, index the 0-based
\* position of the first non-hex byte, c that byte.
C3_FirstInvalidByte ==
    \A p \in PrefixKinds :
        LET st == WithoutPrefix(Parsed(p))
        IN  (results[p] # NotRun /\ Len(st) = 40 /\ NonHex(st) # {}) =>
                results[p] = InvalidHexCharacter(st[FirstOf(NonHex(st))], FirstOf(NonHex(st)) - 1)

\* A 40-byte text with two non-hex characters, the first the low nibble of
\* byte 0, failed on the first.
C3_Witness ==
    /\ Len(text) = 40 /\ Cardinality(NonHex(text)) = 2 /\ FirstOf(NonHex(text)) = 2
    /\ results["none"] = InvalidHexCharacter(text[2], 1)

\* C4: decode is case-insensitive: 40 hex digits in any mixture of cases
\* decode to the bytes they spell.
C4_CaseInsensitive ==
    (HexText(text) /\ results["none"] # NotRun) => results["none"] = Ok(Spelled(text))

\* A text with upper- and lower-case letters was decoded.
C4_Witness ==
    /\ HexText(text) /\ results["none"].tag = "Ok"
    /\ \E k, m \in 1..40 : text[k] \in 65..70 /\ text[m] \in 97..102

\* C5: decode("0x" + hex) and decode(hex) return the same Ok(bytes) for 40
\* hex digits.
C5_PrefixOptional ==
    (HexText(text) /\ results["none"] # NotRun /\ results["0x"] # NotRun) =>
        (results["0x"] = results["none"] /\ results["none"].tag = "Ok")

\* 40 hex digits were decoded with and without the `0x` prefix.
C5_Witness ==
    HexText(text) /\ results["none"].tag = "Ok" /\ results["0x"] # NotRun

\* C6 as stated: decode("0X" + hex) returns the same Ok(bytes) as decode(hex).
C6_UpperPrefixStripped ==
    (HexText(text) /\ results["none"] # NotRun /\ results["0X"] # NotRun) =>
        (results["0X"] = results["none"] /\ results["none"].tag = "Ok")

\* C6 (amended): only the lower-case `0x` is a prefix: decode("0X" + hex) fails with
\* InvalidLength{len: 42} for 40 hex digits.
C6_UpperPrefixKept ==
    (HexText(text) /\ results["0X"] # NotRun) => results["0X"] = InvalidLength(42)

\* 40 hex digits were decoded with the `0X` prefix and without a prefix.
C6_Witness ==
    HexText(text) /\ results["none"].tag = "Ok" /\ results["0X"] # NotRun

(***************************************************************************)
(* Properties of checksum::fmt.                                            *)
(***************************************************************************)
Formatted == pc \in {"done", "decoded"}

\* C1: decoding the checksummed string of an address returns the address.
C1_RoundTrip == pc = "decoded" => decoded = Ok(address)

\* C7: the checksummed string is `0x` followed by 40 hex digits that,
\* lower-cased, are the lowercase hex digits of the address.
C7_PrefixAndHexDigits ==
    Formatted =>
        LET out == as_str(buffer)
        IN  /\ Len(out) = 42
            /\ out[1] = 48 /\ out[2] = 120
            /\ \A k \in 1..40 :
                    /\ IsHexDigit(out[k + 2])
                    /\ to_ascii_lowercase(out[k + 2]) = HexLower(address)[k]

\* C8: the digest is taken over the 40 lowercase hex digits of the address,
\* and the character at position n after the prefix is upper-cased exactly
\* when nibble n of the digest is at least 8.
C8_CaseFollowsDigest ==
    Formatted =>
        /\ hashed = HexLower(address)
        /\ \A n \in 0..39 :
                as_str(buffer)[n + 3] =
                    IF (IF n % 2 = 0 THEN digest[(n \div 2) + 1] \div 16
                                     ELSE digest[(n \div 2) + 1] % 16) >= 8
                    THEN to_ascii_uppercase(HexLower(address)[n + 1])
                    ELSE HexLower(address)[n + 1]

\* C12: when the hex-writing loop is over and the buffer is about to be
\* reinterpreted as initialised, every one of its 42 cells has been written,
\* cells 0 and 1 still hold `0` and `x`, and so cells 40 and 41 are written.
C12_WrittenBeforeRead ==
    (pc = "hex" /\ i = 20) =>
        /\ \A k \in 0..41 : buffer[k] # Uninit
        /\ buffer[0] = 48 /\ buffer[1] = 120

(***************************************************************************)
(* Properties of the checksum-verifying parsers.                           *)
(***************************************************************************)
\* C9: in the checksum-verifying parse a decoding error takes priority: when
\* decode fails the result is decode's error and verification is not run; a
\* checksum mismatch is reported only when decode succeeded and verification
\* ran and failed; the bytes are returned only when decode returned them and
\* verification passed.
C9_DecodeErrorsFirst ==
    (checked # NotRun /\ checked.checksum) =>
        LET d == decode(checked.s)
            r == checked.out.result
            mismatch == IF checked.tag = "from_str_checksum"
                        THEN r = ChecksumMismatch
                        ELSE r.tag = "CompileError"
                             /\ r.message = "invalid address checksum; did you mean"
        IN  /\ d.tag # "Ok" =>
                /\ checked.out.verified = "not run"
                /\ r = IF checked.tag = "from_str_checksum" THEN d
                       ELSE CompileError("invalid address literal", display(d))
            /\ mismatch => (d.tag = "Ok" /\ checked.out.verified = "failed")
            /\ r.tag = "Ok" => (r = d /\ checked.out.verified = "passed")

\* from_str_checksum met a 41-byte text with a non-hex character and reported
\* its length.
C9_Witness ==
    /\ checked # NotRun /\ checked.checksum
    /\ checked.tag = "from_str_checksum"
    /\ Len(checked.s) = 41 /\ NonHex(checked.s) # {}
    /\ checked.out.result = InvalidLength(41)

(***************************************************************************)
(* Properties of FormatBuffer.                                             *)
(***************************************************************************)
\* C10: write_str(s) at offset o fails when o + len(s) exceeds 42, leaving the
\* offset and the bytes below it as they were; otherwise it succeeds, copies
\* the len(s) bytes of s to positions o .. o + len(s), leaves every other
\* position as it was and sets the offset to o + len(s).
C10_WriteAllOrNothing ==
    log # <<>> =>
        LET call == log[Len(log)]
            o == last.offset
            n == Len(call.s)
        IN  IF o + n > 42
            THEN /\ ~call.ok
                 /\ fb.offset = o
                 /\ \A k \in 0..(o - 1) : fb.buffer[k] = last.buffer[k]
            ELSE /\ call.ok
                 /\ fb.offset = o + n
                 /\ \A k \in 0..41 :
                        fb.buffer[k] = IF k >= o /\ k < o + n THEN call.s[k - o + 1]
                                       ELSE last.buffer[k]

\* A write that did not fit failed after one that had filled part of the
\* buffer, and a write filled the buffer to its last byte.
C10_Witness ==
    /\ Len(log) >= 3
    /\ log[Len(log) - 1].ok /\ fb.offset = 42 /\ last.offset = 42
    /\ ~log[Len(log)].ok /\ Len(log[Len(log)].s) = 1

\* The concatenation, in call order, of the strs of the calls that succeeded.
RECURSIVE Committed(_)
Committed(calls) ==
    IF calls = <<>> THEN <<>>
    ELSE IF Head(calls).ok THEN Head(calls).s \o Committed(Tail(calls))
    ELSE Committed(Tail(calls))

\* C13: after any sequence of write_str calls on a new FormatBuffer, the offset
\* is between 0 and 42 and is the sum of the lengths of the writes that
\* succeeded, as_str is the concatenation in call order of exactly the strs
\* written with success, and no position below the offset is unwritten.
C13_CommittedRegion ==
    /\ fb.offset >= 0 /\ fb.offset <= 42
    /\ fb.offset = Len(Committed(log))
    /\ FormatBuffer_as_str(fb) = Committed(log)
    /\ \A k \in 0..(fb.offset - 1) : fb.buffer[k] # Uninit

\* Two writes succeeded around one that failed, and filled the buffer.
C13_Witness ==
    /\ Len(log) = 3
    /\ log[1].ok /\ Len(log[1].s) = 40
    /\ ~log[2].ok /\ Len(log[2].s) = 20
    /\ log[3].ok /\ Len(log[3].s) = 2
    /\ fb.offset = 42

(***************************************************************************)
(* Properties of deserialization.                                          *)
(***************************************************************************)
StartsWith0x(s) == Len(s) >= 2 /\ s[1] = 48 /\ s[2] = 120

\* C11: deserialization fails for a string that does not begin with `0x`, and
\* for one that does it returns what the plain-text parser returns for the
\* same string: Ok with the same bytes where decode succeeds (`0x` followed
\* by 40 hex digits), an error where decode fails.
C11_DeserializeAsDecode ==
    checked # NotRun =>
        IF ~StartsWith0x(checked.s) THEN checked.out.tag = "Error"
        ELSE IF decode(checked.s).tag = "Ok" THEN checked.out = decode(checked.s)
        ELSE checked.out.tag = "Error"

(***************************************************************************)
(* Properties of the input parser of address!.                             *)
(***************************************************************************)
\* The token trees of a stream with the contents of its None-delimited
\* groups inlined.
RECURSIVE Flatten(_)
Flatten(stream) ==
    IF stream = <<>> THEN <<>>
    ELSE LET t == Head(stream)
         IN  IF t.tt = "Group" /\ t.delimiter = "None"
             THEN Flatten(t.stream) \o Flatten(Tail(stream))
             ELSE <<t>> \o Flatten(Tail(stream))

IsTilde(t) == t.tt = "Punct" /\ t.ch = 126

\* A string literal: plain or raw, with or without a suffix.
IsStringLiteral(t) == t.tt = "Literal" /\ t.kind \in {"Str", "StrRaw"}

\* A plain string literal: its text begins and ends with `"`.
IsPlainStringLiteral(t) == t.tt = "Literal" /\ t.kind = "Str" /\ t.suffix = <<>>

\* What is claimed of the parser, for a given reading of `string literal`.
ParserClaim(IsStr(_)) ==
    LET F == Flatten(parser.input)
        t == parser.taken
        WellFormed == \/ Len(F) = 1 /\ IsStr(F[1])
                      \/ Len(F) = 2 /\ IsTilde(F[1]) /\ IsStr(F[2])
        Fits(k) == CASE k = 1 -> IsTilde(F[1]) \/ IsStr(F[1])
                     [] k = 2 -> IsTilde(F[1]) /\ IsStr(F[2])
                     [] OTHER -> FALSE
        Offending == {k \in 1..Len(F) : ~Fits(k)}
        First == CHOOSE k \in Offending : \A j \in Offending : k <= j
    IN  /\ Len(t) <= Len(F) /\ t = SubSeq(F, 1, Len(t))
        /\ parser.result.checksum = ~(t # <<>> /\ IsTilde(t[1]))
        /\ \A k \in Offending : Len(t) <= k
        /\ parser.outcome = "running" => Offending = {} \/ Len(t) < First
        /\ parser.outcome = "Ok" =>
               /\ WellFormed
               /\ t = F
               /\ parser.result.checksum = ~IsTilde(F[1])
               /\ parser.result.value = F[Len(F)].symbol
        /\ parser.outcome = "Err" =>
               /\ ~WellFormed
               /\ IF Offending = {}
                  THEN t = F /\ parser.err.detail.found = "<eof>"
                  ELSE Len(t) = First

\* C14 as stated: the parser accepts exactly the inputs that, with the
\* None-delimited groups inlined, are one string literal with at most one `~`
\* before it; the checksum flag is false exactly when that `~` was matched;
\* every other input is rejected at its first offending token, or at the end
\* when there is none, and no token after the offending one is matched.
C14_OneStringLiteral == parser # <<>> => ParserClaim(IsStringLiteral)

\* C14 amended: the same, for one plain string literal.
C14_OnePlainStringLiteral == parser # <<>> => ParserClaim(IsPlainStringLiteral)

\* A second `~`, inside a None-delimited group, is rejected and the token
\* trees after it are never matched.
C14_Witness ==
    /\ parser # <<>>
    /\ parser.outcome = "Err"
    /\ Len(parser.taken) = 2 /\ IsTilde(parser.taken[1]) /\ IsTilde(parser.taken[2])
    /\ parser.err.detail = [expected |-> "string literal", found |-> <<126>>]
    /\ Len(parser.stack) = 2 /\ parser.stack[1] # <<>>
    /\ Len(Flatten(parser.input)) > 2

====
